---- MODULE Spec2Model ----
(***************************************************************************)
(* tinyeditor (src/main.rs): a single-file, line-oriented terminal editor. *)
(* The model follows main(): argument check, file load, raw mode, and one  *)
(* action per arm of the event dispatch, each followed by the viewport     *)
(* recomputation and the redraw that end every loop iteration.             *)
(*                                                                         *)
(* A String is modelled as the sequence of its scalar values; its byte     *)
(* length and byte offsets are computed from the UTF-8 width of each       *)
(* scalar, so that String::len, char_indices, insert and remove behave as  *)
(* in Rust (byte indexed) and not as scalar-indexed shortcuts.             *)
(***************************************************************************)
EXTENDS Integers, Sequences, FiniteSets, TLC

VARIABLES
    file,             \* content of the file named on the command line
    is_file,          \* whether that path names a regular file
    buffer,           \* Vec<String>: the document
    line,             \* cursor line index
    column,           \* cursor column index
    start_line,       \* first visible document line
    height,           \* terminal height returned by the last size query
    char,             \* Option<char> the decoder returned for the last event
    esc,              \* escape sequence the decoder returned for the last event
    wres,             \* Result of the fs::write of the last event
    term,             \* attributes of the terminal device
    guard,            \* RawModeGuard.termios while the guard is alive
    restored,         \* number of times RawModeGuard::drop has run
    pc,               \* "start", "loop", "exit" or "panicked"
    exit,             \* process outcome
    fault,            \* source line that raised the panic, or what stderr got
    overflow_checks,  \* build profile: TRUE = debug (overflow panics)
    stdin             \* bytes pending on standard input, where the input is modelled

vars == <<file, is_file, buffer, line, column, start_line, height, char, esc,
          wres, term, guard, restored, pc, exit, fault, overflow_checks, stdin>>

----------------------------------------------------------------------------
(* Bounds of the model *)

MaxFileLen == 2
MaxDocSize == 3
TallLines == 19

Scalars == {97, 233}
Controls == {9}
Heights == {8, 16, 17}

(* usize arithmetic: TLC integers are 32 bits wide, so the 2^64 modulus is *)
(* scaled to 2^30; every operand of the program stays below 2^8.           *)
UsizeMod == 2^30

None == -1
NoGuard == {"no guard"}

----------------------------------------------------------------------------
(* Rust primitives *)

Min(a, b) == IF a < b THEN a ELSE b

SaturatingSub(a, b) == IF a >= b THEN a - b ELSE 0

WrappingSub(a, b) == (a - b + UsizeMod) % UsizeMod

WrappingAdd(a, b) == (a + b) % UsizeMod

IsControl(c) == c < 32 \/ (c >= 127 /\ c < 160)

Width(c) == IF c < 128 THEN 1 ELSE IF c < 2048 THEN 2 ELSE IF c < 65536 THEN 3 ELSE 4

RECURSIVE ByteLen(_)
ByteLen(s) == IF s = <<>> THEN 0 ELSE Width(Head(s)) + ByteLen(Tail(s))

CharCount(s) == Len(s)

ByteOffset(s, i) == ByteLen(SubSeq(s, 1, i))

CharIndicesNth(s, n) == IF n < Len(s) THEN ByteOffset(s, n) ELSE None

CharAt(s, idx) ==
    IF \E i \in 1..Len(s) : ByteOffset(s, i - 1) = idx
    THEN CHOOSE i \in 1..Len(s) : ByteOffset(s, i - 1) = idx
    ELSE 0

IsCharBoundary(s, idx) == \E i \in 0..Len(s) : ByteOffset(s, i) = idx

StringInsert(s, idx, ch) ==
    LET i == CHOOSE k \in 0..Len(s) : ByteOffset(s, k) = idx
    IN  SubSeq(s, 1, i) \o <<ch>> \o SubSeq(s, i + 1, Len(s))

StringRemove(s, idx) ==
    LET i == CharAt(s, idx)
    IN  SubSeq(s, 1, i - 1) \o SubSeq(s, i + 1, Len(s))

VecInsert(v, i, x) == SubSeq(v, 1, i) \o <<x>> \o SubSeq(v, i + 1, Len(v))

VecRemove(v, i) == SubSeq(v, 1, i) \o SubSeq(v, i + 2, Len(v))

RECURSIVE Split(_)
Split(s) ==
    IF \E i \in 1..Len(s) : s[i] = 10
    THEN LET i == CHOOSE k \in 1..Len(s) : s[k] = 10 /\ \A j \in 1..(k - 1) : s[j] # 10
         IN  <<SubSeq(s, 1, i - 1)>> \o Split(SubSeq(s, i + 1, Len(s)))
    ELSE <<s>>

RECURSIVE JoinTerminated(_)
JoinTerminated(v) ==
    IF Len(v) = 0 THEN <<>> ELSE v[1] \o <<10>> \o JoinTerminated(Tail(v))

RECURSIVE Join(_)
Join(v) ==
    IF Len(v) = 0 THEN <<>>
    ELSE IF Len(v) = 1 THEN v[1]
    ELSE v[1] \o <<10>> \o Join(Tail(v))

RECURSIVE TotalChars(_)
TotalChars(v) == IF v = <<>> THEN 0 ELSE Len(Head(v)) + TotalChars(Tail(v))

DocSize(v) == Len(v) + TotalChars(v)

----------------------------------------------------------------------------
(* Terminal session: enable_raw_mode and RawModeGuard *)

CookedTermios == {"BRKINT", "ICRNL", "INPCK", "ISTRIP", "IXON", "OPOST",
                  "ECHO", "ICANON", "IEXTEN", "ISIG"}

RawTermios(t) ==
    (t \ {"BRKINT", "ICRNL", "INPCK", "ISTRIP", "IXON", "OPOST",
          "ECHO", "ICANON", "IEXTEN", "ISIG"}) \cup {"CS8"}

(* enable_raw_mode on a terminal with attributes t: the attributes it sets *)
(* and the attributes the returned guard holds                             *)
EnableRawMode(t) == [term |-> RawTermios(t), guard |-> t]

(* RawModeGuard::drop for a guard holding the attributes g *)
GuardDrop(g) ==
    IF g # NoGuard
    THEN /\ term' = g
         /\ restored' = restored + 1
         /\ guard' = NoGuard
    ELSE UNCHANGED <<term, restored, guard>>

(* The locals of main stop existing when main is left *)
DropLocals ==
    /\ buffer' = <<>>
    /\ line' = 0
    /\ column' = 0
    /\ start_line' = 0
    /\ height' = 0

UnwindAbort(site) ==
    /\ pc' = "panicked"
    /\ exit' = "PANIC"
    /\ fault' = site
    /\ DropLocals
    /\ UNCHANGED <<term, restored, guard>>

(* A panic unwinds out of main and drops the locals still alive *)
Unwind(site) ==
    /\ pc' = "panicked"
    /\ exit' = "PANIC"
    /\ fault' = site
    /\ DropLocals
    /\ GuardDrop(guard)

Running ==
    /\ pc' = "loop"
    /\ UNCHANGED <<term, guard, restored, exit, fault>>

----------------------------------------------------------------------------
(* Viewport recomputation and redraw, the tail of every loop iteration *)

GetScreenSize == Heights \cup {None}

ViewportMargin7(l, s, h, n, oc) ==
    LET s1 == IF l < s + 8 THEN SaturatingSub(l, 7) ELSE s
        under1 == s1 + h < 8
        t == WrappingSub(s1 + h, 8)
        cond2 == l >= t
        under2 == h < 8
        s2 == WrappingAdd(WrappingSub(l, WrappingSub(h, 8)), 1)
        s3 == IF cond2 THEN s2 ELSE s1
        s4 == IF n > h THEN Min(s3, n - h) ELSE 0
    IN  IF oc /\ under1 THEN [panic |-> TRUE, site |-> "main.rs:207", start |-> s1]
        ELSE IF oc /\ cond2 /\ under2 THEN [panic |-> TRUE, site |-> "main.rs:208", start |-> s1]
        ELSE [panic |-> FALSE, site |-> "", start |-> s4]

ViewportUnclamped(l, s, h, n, oc) ==
    LET s1 == IF l < s + 8 THEN SaturatingSub(l, 8) ELSE s
        under1 == s1 + h < 8
        t == WrappingSub(s1 + h, 8)
        cond2 == l >= t
        under2 == h < 8
        s2 == WrappingAdd(WrappingSub(l, WrappingSub(h, 8)), 1)
        s3 == IF cond2 THEN s2 ELSE s1
    IN  IF oc /\ under1 THEN [panic |-> TRUE, site |-> "main.rs:207", start |-> s1]
        ELSE IF oc /\ cond2 /\ under2 THEN [panic |-> TRUE, site |-> "main.rs:208", start |-> s1]
        ELSE [panic |-> FALSE, site |-> "", start |-> s3]

(* main.rs 203-216; oc is the build's overflow-checks setting *)
Viewport(l, s, h, n, oc) ==
    LET s1 == IF l < s + 8 THEN SaturatingSub(l, 8) ELSE s
        under1 == s1 + h < 8
        t == WrappingSub(s1 + h, 8)
        cond2 == l >= t
        under2 == h < 8
        s2 == WrappingAdd(WrappingSub(l, WrappingSub(h, 8)), 1)
        s3 == IF cond2 THEN s2 ELSE s1
        s4 == IF n > h THEN Min(s3, n - h) ELSE 0
    IN  IF oc /\ under1 THEN [panic |-> TRUE, site |-> "main.rs:207", start |-> s1]
        ELSE IF oc /\ cond2 /\ under2 THEN [panic |-> TRUE, site |-> "main.rs:208", start |-> s1]
        ELSE [panic |-> FALSE, site |-> "", start |-> s4]

(* main.rs 72-81: terminal widths (ws_col) the size query may report *)
Widths == {1, 2, 3}

(* main.rs 96: the screen rows draw_buffer loops over *)
DrawRows(h, n) == 0..(Min(h, n) - 1)

(* main.rs 100: the Document index read for screen row r *)
DrawIndex(s, r) == r + s

(* main.rs 100: buffer[current_line + start_line] panics past the end *)
DrawIndexPanics(s, h, n) == \E r \in DrawRows(h, n) : DrawIndex(s, r) >= n

(* Iterator::skip and Iterator::take over the scalars of a string *)
Skip(str, k) == SubSeq(str, Min(k, Len(str)) + 1, Len(str))

Take(str, k) == SubSeq(str, 1, Min(k, Len(str)))

(* main.rs 100-108: the text printed on screen row r at terminal width w; *)
(* l is the cursor's line, compared with the screen row as the code does  *)
DrawLine(b, s, l, w, r) ==
    LET curr_str == b[DrawIndex(s, r) + 1]
    IN  IF ByteLen(curr_str) < w THEN curr_str
        ELSE IF l = r THEN Take(Skip(curr_str, ByteLen(curr_str) - w), w)
        ELSE Take(curr_str, w)

(* main.rs 113: line - start_line is the other arithmetic that can fault *)
DrawPanics(l, s, oc) == oc /\ l < s

(* main.rs 201-218: size query with the 1x1 fallback, viewport, draw_buffer; *)
(* the second disjunct is a failed write to stdout inside draw_buffer       *)
Redraw(b, l, c) ==
    \/ \E sz \in GetScreenSize :
        LET h == IF sz = None THEN 1 ELSE sz
            vp == Viewport(l, start_line, h, Len(b), overflow_checks)
        IN  IF vp.panic THEN Unwind(vp.site)
            ELSE IF DrawIndexPanics(vp.start, h, Len(b)) THEN Unwind("main.rs:100")
            ELSE IF DrawPanics(l, vp.start, overflow_checks) THEN Unwind("main.rs:113")
            ELSE /\ buffer' = b
                 /\ line' = l
                 /\ column' = c
                 /\ height' = h
                 /\ start_line' = vp.start
                 /\ Running
    \/ Unwind("stdout")

AfterArm(r) ==
    IF r.panic THEN Unwind(r.site) ELSE Redraw(r.buffer, r.line, r.column)

----------------------------------------------------------------------------
(* Dispatch arms: each yields the Document and Cursor it leaves, or a panic *)

Ok(b, l, c) == [panic |-> FALSE, site |-> "", buffer |-> b, line |-> l, column |-> c]

Panicked(b, l, c, site) == [panic |-> TRUE, site |-> site, buffer |-> b, line |-> l, column |-> c]

(* main.rs 146-156 *)
BackspaceArm(b, l, c) ==
    LET line_content == b[l + 1]
        nth == CharIndicesNth(line_content, c - 1)
        idx == IF nth = None THEN 0 ELSE nth
    IN  IF c > 0
        THEN IF CharAt(line_content, idx) = 0
             THEN Panicked(b, l, c, "main.rs:149")
             ELSE Ok([b EXCEPT ![l + 1] = StringRemove(line_content, idx)], l, c - 1)
        ELSE IF Len(b) > 1
        THEN IF l = 0
             THEN Panicked(b, l, c, "main.rs:152")
             ELSE LET removed == b[l + 1]
                      rest == VecRemove(b, l)
                  IN  Ok([rest EXCEPT ![l] = b[l] \o removed], l - 1, ByteLen(b[l]))
        ELSE Ok(b, l, c)

(* main.rs 157-166 *)
EnterArmBefore(b, l, c) == Ok(VecInsert(b, l, <<>>), l + 1, 0)

EnterArm(b, l, c) == Ok(VecInsert(b, l + 1, <<>>), l + 1, 0)

InsertArmByteColumn(b, l, c, ch) ==
    IF IsControl(ch)
    THEN Ok(b, l, c)
    ELSE LET line_ == b[l + 1]
             byte_index == Min(c, ByteLen(line_))
         IN  IF IsCharBoundary(line_, byte_index)
             THEN Ok([b EXCEPT ![l + 1] = StringInsert(line_, byte_index, ch)], l, c + 1)
             ELSE Panicked(b, l, c, "main.rs:176")

(* main.rs 172-179 *)
InsertArm(b, l, c, ch) ==
    IF IsControl(ch)
    THEN Ok(b, l, c)
    ELSE LET line_ == b[l + 1]
             nth == CharIndicesNth(line_, c)
             byte_index == IF nth = None THEN ByteLen(line_) ELSE nth
         IN  IF IsCharBoundary(line_, byte_index)
             THEN Ok([b EXCEPT ![l + 1] = StringInsert(line_, byte_index, ch)], l, c + 1)
             ELSE Panicked(b, l, c, "main.rs:176")

(* main.rs 182-184 *)
UpArm(b, l, c) == Ok(b, SaturatingSub(l, 1), c)

DownArmUnclamped(b, l, c) == Ok(b, l + 1, c)

(* main.rs 185-187 *)
DownArm(b, l, c) == Ok(b, Min(l + 1, Len(b) - 1), c)

(* main.rs 188-190 *)
RightArm(b, l, c) == Ok(b, l, Min(c + 1, ByteLen(b[l + 1])))

(* main.rs 191-193 *)
LeftArm(b, l, c) == Ok(b, l, SaturatingSub(c, 1))

DefaultEscapeArmPanics(b, l, c) == Panicked(b, l, c, "main.rs:196")

(* main.rs 194-197: the panic! of line 196 is commented out *)
DefaultEscapeArm(b, l, c) == Ok(b, l, c)

(* main.rs 66-70: the outcome of fs::write is computed and discarded *)
WriteFirstLine(b, res) ==
    /\ wres' = res
    /\ IF res = "ok" THEN file' = Head(b) ELSE file' \in {file, <<>>}

Write(b, res) ==
    /\ wres' = res
    /\ IF res = "ok" THEN file' = Join(b) ELSE file' \in {file, <<>>}

NoWrite ==
    /\ wres' = "none"
    /\ UNCHANGED file

----------------------------------------------------------------------------
(* Start-up: main.rs 118-138 *)

SmallFiles == UNION {[1..k -> Scalars \cup {10}] : k \in 0..MaxFileLen}

TallFile == [i \in 1..(TallLines - 1) |-> 10]

InitWith(files) ==
    /\ is_file \in BOOLEAN
    /\ file \in IF is_file THEN files ELSE {<<>>}
    /\ buffer = <<>>
    /\ line = 0
    /\ column = 0
    /\ start_line = 0
    /\ height = 0
    /\ char = None
    /\ esc = <<>>
    /\ wres = "none"
    /\ term = CookedTermios
    /\ guard = NoGuard
    /\ restored = 0
    /\ pc = "start"
    /\ exit = "none"
    /\ fault = ""
    /\ overflow_checks \in BOOLEAN
    /\ stdin = <<>>

Init == InitWith(SmallFiles)

InitTall == InitWith({TallFile})

(* main.rs 126-129 *)
UsageError ==
    /\ pc = "start"
    /\ ~is_file
    /\ pc' = "exit"
    /\ exit' = "FAILURE"
    /\ fault' = "You must specify a file!"
    /\ UNCHANGED <<file, is_file, buffer, line, column, start_line, height, char,
                   esc, wres, term, guard, restored, overflow_checks, stdin>>

(* main.rs 131: read_to_string fails (I/O error or invalid UTF-8) *)
LoadFails ==
    /\ pc = "start"
    /\ is_file
    /\ Unwind("main.rs:131")
    /\ UNCHANGED <<file, is_file, char, esc, wres, overflow_checks, stdin>>

(* main.rs 131-138: load, raw mode, size query, first draw *)
Start ==
    /\ pc = "start"
    /\ is_file
    /\ \E sz \in GetScreenSize, out_ok \in BOOLEAN :
        LET _guard == EnableRawMode(term)
        IN  IF sz = None \/ ~out_ok
            THEN /\ pc' = "panicked"
                 /\ exit' = "PANIC"
                 /\ fault' = (IF sz = None THEN "main.rs:137" ELSE "stdout")
                 /\ DropLocals
                 /\ GuardDrop(_guard.guard)
            ELSE /\ pc' = "loop"
                 /\ buffer' = Split(file)
                 /\ height' = sz
                 /\ term' = _guard.term
                 /\ guard' = _guard.guard
                 /\ UNCHANGED <<line, column, start_line, restored, exit, fault>>
    /\ UNCHANGED <<file, is_file, char, esc, wres, overflow_checks, stdin>>

----------------------------------------------------------------------------
(* The event loop: main.rs 140-219, one action per dispatch arm *)

ReadFails ==
    /\ pc = "loop"
    /\ char' = None
    /\ esc' = <<>>
    /\ Unwind("main.rs:29")
    /\ NoWrite
    /\ UNCHANGED <<is_file, overflow_checks, stdin>>

Backspace ==
    /\ pc = "loop"
    /\ char' = 127
    /\ esc' = <<>>
    /\ AfterArm(BackspaceArm(buffer, line, column))
    /\ NoWrite
    /\ UNCHANGED <<is_file, overflow_checks, stdin>>

Enter ==
    /\ pc = "loop"
    /\ DocSize(buffer) < MaxDocSize
    /\ char' \in {10, 13}
    /\ esc' = <<>>
    /\ AfterArm(EnterArm(buffer, line, column))
    /\ NoWrite
    /\ UNCHANGED <<is_file, overflow_checks, stdin>>

Quit ==
    /\ pc = "loop"
    /\ char' = 17
    /\ esc' = <<>>
    /\ \E res \in {"ok", "err"} : Write(buffer, res)
    /\ pc' = "exit"
    /\ exit' = "SUCCESS"
    /\ DropLocals
    /\ GuardDrop(guard)
    /\ UNCHANGED <<fault, is_file, overflow_checks, stdin>>

Save ==
    /\ pc = "loop"
    /\ char' = 19
    /\ esc' = <<>>
    /\ \E res \in {"ok", "err"} : Write(buffer, res)
    /\ Redraw(buffer, line, column)
    /\ UNCHANGED <<is_file, overflow_checks, stdin>>

Other ==
    /\ pc = "loop"
    /\ \E ch \in Scalars \cup Controls :
        /\ IsControl(ch) \/ DocSize(buffer) < MaxDocSize
        /\ char' = ch
        /\ AfterArm(InsertArm(buffer, line, column, ch))
    /\ esc' = <<>>
    /\ NoWrite
    /\ UNCHANGED <<is_file, overflow_checks, stdin>>

Arrow(seq, r) ==
    /\ pc = "loop"
    /\ char' = None
    /\ esc' = seq
    /\ AfterArm(r)
    /\ NoWrite
    /\ UNCHANGED <<is_file, overflow_checks, stdin>>

Up == Arrow(<<27, 91, 65>>, UpArm(buffer, line, column))

Down == Arrow(<<27, 91, 66>>, DownArm(buffer, line, column))

Right == Arrow(<<27, 91, 67>>, RightArm(buffer, line, column))

Left == Arrow(<<27, 91, 68>>, LeftArm(buffer, line, column))

UnrecognizedEscape == Arrow(<<27, 91, 90>>, DefaultEscapeArm(buffer, line, column))

Next ==
    \/ UsageError
    \/ LoadFails
    \/ Start
    \/ ReadFails
    \/ Backspace
    \/ Enter
    \/ Quit
    \/ Save
    \/ Other
    \/ Up
    \/ Down
    \/ Right
    \/ Left
    \/ UnrecognizedEscape

Spec == Init /\ [][Next]_vars

SpecTall == InitTall /\ [][Next]_vars

----------------------------------------------------------------------------
(* The input decoder: main.rs 26-64, read_utf8_or_escape, as a function of  *)
(* the bytes pending on standard input. Bytes are numbers 0..255.           *)

(* longest input after its first byte *)
MaxFollow == 3

(* first bytes: ESC, ASCII, a continuation byte, 2-, 3- and 4-byte leads    *)
(* (C0 overlong, ED surrogates, F4 beyond U+10FFFF) and FF                  *)
LeadBytes == {27, 65, 128, 192, 195, 224, 226, 237, 240, 244, 255}

(* later bytes: '3', 'A', '[', '~' and the continuation bytes 80, A9 *)
FollowBytes == {51, 65, 91, 126, 128, 169}

Streams ==
    {<<b>> \o t : b \in LeadBytes,
                  t \in UNION {[1..k -> FollowBytes] : k \in 0..MaxFollow}}

(* '\u{FFFD}' *)
ReplacementChar == 65533

Returned(c, e, rest) ==
    [status |-> "returned", site |-> "", char |-> c, esc |-> e, rest |-> rest]

DecoderPanics(site, rest) ==
    [status |-> "panicked", site |-> site, char |-> None, esc |-> <<>>, rest |-> rest]

(* read_exact has not got its bytes yet: the call is still blocked *)
Blocked ==
    [status |-> "blocked", site |-> "", char |-> None, esc |-> <<>>, rest |-> <<>>]

IsTerminatorBelowTilde(byte) == byte >= 64 /\ byte < 126 /\ byte # 91

(* main.rs 39 *)
IsTerminator(byte) == byte >= 64 /\ byte < 127 /\ byte # 91

(* main.rs 35-42: String::from_utf8 of one byte is an error from 0x80 on, *)
(* and line 37 unwraps it                                                  *)
RECURSIVE CollectEscape(_, _)
CollectEscape(str, in) ==
    IF in = <<>> THEN Blocked
    ELSE LET byte == Head(in)
         IN  IF byte >= 128 THEN DecoderPanics("main.rs:37", Tail(in))
             ELSE IF IsTerminator(byte) THEN Returned(None, Append(str, byte), Tail(in))
             ELSE CollectEscape(Append(str, byte), Tail(in))

NumBytesFourOtherwise(b) ==
    IF b < 128 THEN 1
    ELSE IF b \div 32 = 6 THEN 2
    ELSE IF b \div 16 = 14 THEN 3
    ELSE 4

(* main.rs 46-56: 0 stands for the early return of line 55 *)
NumBytes(b) ==
    IF b < 128 THEN 1
    ELSE IF b \div 32 = 6 THEN 2
    ELSE IF b \div 16 = 14 THEN 3
    ELSE IF b \div 8 = 30 THEN 4
    ELSE 0

IsContinuation(b) == b \in 128..191

(* std::str::from_utf8 on the 1 to 4 bytes of one lead byte, then         *)
(* chars().next(): the scalar, or None where the bytes are not well       *)
(* formed (the validation follows the well-formed byte ranges of the      *)
(* Unicode standard, as core::str::validations does)                      *)
FromUtf8(bytes) ==
    LET n == Len(bytes)
        b1 == bytes[1]
    IN  IF n = 1 THEN (IF b1 < 128 THEN b1 ELSE None)
        ELSE IF n = 2 THEN
            IF b1 \in 194..223 /\ IsContinuation(bytes[2])
            THEN (b1 % 32) * 64 + (bytes[2] % 64) ELSE None
        ELSE IF n = 3 THEN
            IF /\ \/ b1 = 224 /\ bytes[2] \in 160..191
                  \/ b1 \in 225..236 /\ IsContinuation(bytes[2])
                  \/ b1 = 237 /\ bytes[2] \in 128..159
                  \/ b1 \in 238..239 /\ IsContinuation(bytes[2])
               /\ IsContinuation(bytes[3])
            THEN (b1 % 16) * 4096 + (bytes[2] % 64) * 64 + (bytes[3] % 64) ELSE None
        ELSE
            IF /\ \/ b1 = 240 /\ bytes[2] \in 144..191
                  \/ b1 \in 241..243 /\ IsContinuation(bytes[2])
                  \/ b1 = 244 /\ bytes[2] \in 128..143
               /\ IsContinuation(bytes[3])
               /\ IsContinuation(bytes[4])
            THEN (b1 % 8) * 262144 + (bytes[2] % 64) * 4096
                     + (bytes[3] % 64) * 64 + (bytes[4] % 64)
            ELSE None

(* main.rs 26-64 on the pending bytes in *)
ReadUtf8OrEscape(in) ==
    IF in = <<>> THEN Blocked
    ELSE IF Head(in) = 27 THEN CollectEscape(<<27>>, Tail(in))
    ELSE LET num_bytes == NumBytes(Head(in))
         IN  IF num_bytes = 0 THEN Returned(ReplacementChar, <<>>, Tail(in))
             ELSE IF Len(in) < num_bytes THEN Blocked
             ELSE LET str == FromUtf8(SubSeq(in, 1, num_bytes))
                  IN  Returned(IF str = None THEN ReplacementChar ELSE str, <<>>,
                               SubSeq(in, num_bytes + 1, Len(in)))

(* the running editor on an empty document, with input pending *)
InitDecoder ==
    /\ is_file = TRUE
    /\ file = <<>>
    /\ buffer = Split(file)
    /\ line = 0
    /\ column = 0
    /\ start_line = 0
    /\ height \in Heights
    /\ char = None
    /\ esc = <<>>
    /\ wres = "none"
    /\ term = EnableRawMode(CookedTermios).term
    /\ guard = EnableRawMode(CookedTermios).guard
    /\ restored = 0
    /\ pc = "loop"
    /\ exit = "none"
    /\ fault = ""
    /\ overflow_checks \in BOOLEAN
    /\ stdin \in Streams

(* main.rs 141: one call of read_utf8_or_escape; the dispatch of the event *)
(* it returns is the subject of Spec and is left out here                  *)
Decode ==
    /\ pc = "loop"
    /\ LET r == ReadUtf8OrEscape(stdin)
       IN  /\ r.status # "blocked"
           /\ stdin' = r.rest
           /\ char' = r.char
           /\ esc' = r.esc
           /\ IF r.status = "panicked" THEN Unwind(r.site)
              ELSE /\ Running
                  /\ UNCHANGED <<buffer, line, column, start_line, height>>
    /\ UNCHANGED <<file, is_file, wres, overflow_checks>>

NextDecoder == Decode

SpecDecoder == InitDecoder /\ [][NextDecoder]_vars

----------------------------------------------------------------------------
(* Properties *)

(* The file was read into the Document: every state from the first draw on *)
Loaded ==
    \/ pc = "loop"
    \/ pc \in {"exit", "panicked"} /\ fault \notin {"You must specify a file!", "main.rs:131"}

CurrentLine == buffer[line + 1]

IsArrow(seq) == seq \in {<<27, 91, 65>>, <<27, 91, 66>>, <<27, 91, 67>>, <<27, 91, 68>>}

Max(a, b) == IF a > b THEN a ELSE b

(* C1: Backspace with the cursor at line 0, column 0 is a no-op for every   *)
(* document, also one of several lines: the Document and the Cursor are     *)
(* unchanged and the Backspace arm raises no fault (faults of the redraw    *)
(* that ends the iteration are the subject of C4).                          *)
BackspaceAtOriginIsNoOp ==
    [][(pc = "loop" /\ char' = 127 /\ line = 0 /\ column = 0)
        => /\ fault' \notin {"main.rs:149", "main.rs:152"}
           /\ pc' = "loop" => UNCHANGED <<buffer, line, column>>]_vars

(* C2: in every state reached by input events from any loaded file the      *)
(* Document has at least one line and the cursor line is a valid index.     *)
DocumentNonEmptyLineValid ==
    pc = "loop" => Len(buffer) >= 1 /\ line >= 0 /\ line < Len(buffer)

(* a Backspace merged the last line of a two-line file into the first *)
MergedToOneLine ==
    /\ pc = "loop"
    /\ char = 127
    /\ Len(Split(file)) = 2
    /\ Len(buffer) = 1
    /\ line = 0

(* C3: in every reachable state the cursor column lies between 0 and the    *)
(* scalar-value length of the current line, inclusive.                      *)
ColumnWithinLine ==
    pc = "loop" => column >= 0 /\ column <= CharCount(CurrentLine)

(* C4: after the viewport is recomputed, for every height >= 1, the cursor  *)
(* line is inside the window, start_line is within [0, max(0, len-height)], *)
(* and the recomputation raises no arithmetic underflow.                    *)
ViewportContainsCursor ==
    /\ fault \notin {"main.rs:207", "main.rs:208", "main.rs:113"}
    /\ pc = "loop" =>
        /\ start_line <= line
        /\ line <= start_line + height - 1
        /\ 0 <= start_line
        /\ start_line <= Max(0, Len(buffer) - height)

Unclamped == start_line # 0 /\ start_line # Len(buffer) - height

MarginKept == line - start_line >= 8 /\ start_line + height - line >= 8

(* C5 as stated: after a cursor move, for every terminal height and every   *)
(* document longer than it, an unclamped start_line keeps the cursor 8      *)
(* lines from both edges. Stated over the states whose window contains the  *)
(* cursor, so that a refutation does not rest on the small-height faults of *)
(* C4.                                                                      *)
MarginEveryHeight ==
    (/\ pc = "loop"
     /\ IsArrow(esc)
     /\ Len(buffer) > height
     /\ Unclamped
     /\ start_line <= line
     /\ line <= start_line + height - 1) => MarginKept

(* C5 amended: the same for every terminal height of at least 17 lines.     *)
MarginFromHeight17 ==
    (/\ pc = "loop"
     /\ IsArrow(esc)
     /\ height >= 17
     /\ Len(buffer) > height
     /\ Unclamped) => MarginKept

(* Down has scrolled a 17-line window off the top of a longer document *)
ScrolledWithMargin ==
    /\ pc = "loop"
    /\ esc = <<27, 91, 66>>
    /\ height = 17
    /\ Len(buffer) > height
    /\ Unclamped
    /\ line - start_line = 8

(* C6: inserting a non-control scalar ch at column c <= L of a line of      *)
(* scalar length L gives a line of length L+1 with ch at position c, the    *)
(* other scalars in their order, cursor column c+1, and leaves the          *)
(* lineIndex and every other line unchanged.                                *)
InsertPlacesScalar ==
    [][(pc = "loop" /\ char' # None /\ ~IsControl(char') /\ column <= CharCount(CurrentLine))
        => /\ fault' # "main.rs:176"
           /\ pc' = "loop" =>
               LET old == CurrentLine
                   new == buffer'[line + 1]
               IN
               /\ line' = line
               /\ column' = column + 1
               /\ Len(buffer') = Len(buffer)
               /\ CharCount(new) = CharCount(old) + 1
               /\ new[column + 1] = char'
               /\ SubSeq(new, 1, column) = SubSeq(old, 1, column)
               /\ SubSeq(new, column + 2, Len(new)) = SubSeq(old, column + 1, Len(old))
               /\ \A i \in 1..Len(buffer) : i # line + 1 => buffer'[i] = buffer[i]]_vars

(* a two-byte scalar was just inserted in front of a one-byte one *)
InsertedInFront ==
    /\ pc = "loop"
    /\ char = 233
    /\ column = 1
    /\ CurrentLine = <<233, 97>>

(* C7: Backspace at column 0 of line i > 0 appends line i to line i-1,      *)
(* removes line i, and leaves the cursor at (i-1, scalar-value length of    *)
(* line i-1 before the merge).                                              *)
BackspaceMergeCursor ==
    [][(pc = "loop" /\ char' = 127 /\ column = 0 /\ line > 0)
        => /\ fault' \notin {"main.rs:149", "main.rs:152"}
           /\ pc' = "loop" =>
               /\ Len(buffer') = Len(buffer) - 1
               /\ buffer'[line] = buffer[line] \o buffer[line + 1]
               /\ \A i \in 1..Len(buffer') :
                    i # line => buffer'[i] = buffer[IF i < line THEN i ELSE i + 1]
               /\ line' = line - 1
               /\ column' = CharCount(buffer[line])]_vars

(* C8: load then save with no edit in between writes the original bytes:    *)
(* the load yields split(content, LF), cursor moves keep the Document, and  *)
(* a successful save of that Document writes join(split(content, LF), LF),  *)
(* which is the content the file already had.                               *)
SaveAfterLoadRoundTrips ==
    [][/\ (pc = "start" /\ pc' = "loop") => buffer' = Split(file) /\ file' = file
       /\ (pc = "loop" /\ esc' # <<>> /\ pc' = "loop") => buffer' = buffer /\ file' = file
       /\ (pc = "loop" /\ char' \in {17, 19} /\ wres' = "ok" /\ buffer = Split(file))
            => file' = file]_vars

(* ctrl+S rewrote a file that ends in a line feed, byte for byte *)
SavedTrailingNewline ==
    /\ pc = "loop"
    /\ char = 19
    /\ wres = "ok"
    /\ buffer = <<<<97>>, <<>>>>
    /\ file = <<97, 10>>

(* C9: a failed write of the save target is fatal: the process terminates   *)
(* with a failure outcome, it neither keeps editing nor exits with success. *)
WriteFailureIsFatal ==
    wres = "err" => pc = "panicked" /\ exit = "PANIC"

(* C10: once raw mode is on, every termination path restores the captured   *)
(* attributes exactly once; the usage-error path never touches them.        *)
TerminalRestoredOnce ==
    /\ pc = "loop" => term = RawTermios(CookedTermios) /\ guard = CookedTermios /\ restored = 0
    /\ (pc \in {"exit", "panicked"} /\ Loaded) => term = CookedTermios /\ restored = 1
    /\ fault = "You must specify a file!" => term = CookedTermios /\ restored = 0

(* a fatal underflow in the viewport recomputation, terminal restored *)
RestoredAfterViewportFault ==
    /\ pc = "panicked"
    /\ fault = "main.rs:207"
    /\ term = CookedTermios
    /\ restored = 1

(* C13: a completed escape sequence other than ESC [ A/B/C/D leaves the     *)
(* Document and the Cursor unchanged and its arm raises no fault; ESC [ A,  *)
(* B, C, D move the cursor up, down, right and left: A and B change only    *)
(* the line, by one step towards the start or the end, C and D only the     *)
(* column, D towards 0 and C never towards 0 from a position inside the     *)
(* line.                                                                    *)
EscapeDispatch ==
    [][(pc = "loop" /\ esc' # <<>>)
        => /\ fault' \notin {"main.rs:196", "main.rs:149", "main.rs:152", "main.rs:176"}
           /\ pc' = "loop" =>
               /\ buffer' = buffer
               /\ ~IsArrow(esc') => line' = line /\ column' = column
               /\ esc' = <<27, 91, 65>> =>
                    column' = column /\ line' = (IF line = 0 THEN 0 ELSE line - 1)
               /\ esc' = <<27, 91, 66>> =>
                    /\ column' = column
                    /\ line' = (IF line = Len(buffer) - 1 THEN line ELSE line + 1)
               /\ esc' = <<27, 91, 67>> =>
                    /\ line' = line
                    /\ column < CharCount(CurrentLine) => column' = column + 1
               /\ esc' = <<27, 91, 68>> =>
                    line' = line /\ column' = (IF column = 0 THEN 0 ELSE column - 1)]_vars

(* ESC [ Z arrived with the cursor inside a document that has text *)
IgnoredEscape ==
    /\ pc = "loop"
    /\ esc = <<27, 91, 90>>
    /\ line = 1
    /\ column = 1
    /\ buffer = <<<<>>, <<97>>>>

(* C14: every ctrl+S or ctrl+Q whose write succeeds leaves the file equal   *)
(* to the Document's lines joined by single LF bytes, with no trailing LF   *)
(* added: splitting the file at LF gives back the Document and the file has *)
(* one scalar per scalar of a line and per separator. After ctrl+S the Document and the      *)
(* Cursor are unchanged while the editor runs on; ctrl+Q ends the session   *)
(* with the success status, and no step is taken once the session ended.    *)
SaveAndQuit ==
    [][/\ pc # "exit"
       /\ (pc = "loop" /\ char' \in {17, 19} /\ wres' = "ok")
            => /\ Split(file') = buffer
               /\ Len(file') = TotalChars(buffer) + Len(buffer) - 1
               /\ (char' = 19 /\ pc' = "loop")
                    => buffer' = buffer /\ line' = line /\ column' = column
               /\ char' = 19 => fault' \in {"", "stdout", "main.rs:207", "main.rs:208", "main.rs:113"}
               /\ char' = 17 => pc' = "exit" /\ exit' = "SUCCESS"]_vars

(* ctrl+S saved a two-line document with the cursor on its second line *)
SavedAndRunning ==
    /\ pc = "loop"
    /\ char = 19
    /\ wres = "ok"
    /\ line = 1
    /\ buffer = <<<<97>>, <<>>>>
    /\ file = <<97, 10>>

(* C15: in every running state with columnIndex > 0, also when an Up or a   *)
(* Down brought the cursor onto a shorter or empty line, Backspace raises   *)
(* no fault, deletes exactly the scalar immediately before the cursor in    *)
(* the current line (the line's last scalar when the cursor stands past     *)
(* its end), decrements columnIndex by 1 and leaves lineIndex and every     *)
(* other line unchanged.                                                    *)
BackspaceDeletesBeforeCursor ==
    [][(pc = "loop" /\ char' = 127 /\ column > 0)
        => /\ fault' \notin {"main.rs:149", "main.rs:152"}
           /\ pc' = "loop" =>
               LET k == Min(column, Len(CurrentLine))
               IN  /\ line' = line
                   /\ column' = column - 1
                   /\ Len(buffer') = Len(buffer)
                   /\ \A i \in 1..Len(buffer) : i # line + 1 => buffer'[i] = buffer[i]
                   /\ k >= 1
                   /\ buffer'[line + 1] =
                        SubSeq(CurrentLine, 1, k - 1) \o SubSeq(CurrentLine, k + 1, Len(CurrentLine))]_vars

(* C18: Enter (0x0A or 0x0D) at any cursor position raises no fault of its  *)
(* own and inserts a new empty line immediately after the current line:     *)
(* the Document is one line longer, the cursor is at (lineIndex + 1, 0),    *)
(* the lines up to and including the current one keep their content and     *)
(* the lines after it move down by one unchanged.                           *)
EnterInsertsEmptyLine ==
    [][(pc = "loop" /\ char' \in {10, 13})
        => /\ fault' \in {"", "stdout", "main.rs:207", "main.rs:208", "main.rs:113"}
           /\ pc' = "loop" =>
               /\ Len(buffer') = Len(buffer) + 1
               /\ line' = line + 1
               /\ column' = 0
               /\ buffer'[line + 2] = <<>>
               /\ \A i \in 1..(line + 1) : buffer'[i] = buffer[i]
               /\ \A i \in (line + 2)..Len(buffer) : buffer'[i + 1] = buffer[i]]_vars

(* Enter (CR) was pressed on a line holding text: the text stays above *)
EnteredBelowText ==
    /\ pc = "loop"
    /\ char = 13
    /\ line = 1
    /\ column = 0
    /\ buffer = <<<<97>>, <<>>>>

(* C19: after a Left or a Right in any running state, also with the column  *)
(* past the current line's end after an Up or a Down and on lines holding   *)
(* multi-byte scalars, columnIndex has moved by at most 1 and lies within   *)
(* [0, scalar length of the current line]; lineIndex and the Document are   *)
(* unchanged.                                                               *)
LeftRightWithinLine ==
    [][(pc = "loop" /\ esc' \in {<<27, 91, 67>>, <<27, 91, 68>>} /\ pc' = "loop")
        => /\ column' - column \in {-1, 0, 1}
           /\ column' >= 0
           /\ column' <= CharCount(CurrentLine)
           /\ line' = line
           /\ buffer' = buffer]_vars

(* C20: every render, the first one and the one after each event, whatever  *)
(* the height reported this time and whatever the Document's length, reads  *)
(* only valid Document indices: startLine + r is below the Document's       *)
(* length for every row r in 0..min(height, length), and no render faults   *)
(* on such a read.                                                          *)
RenderReadsInsideDocument ==
    /\ fault # "main.rs:100"
    /\ pc = "loop" =>
        \A r \in DrawRows(height, Len(buffer)) :
            DrawIndex(start_line, r) \in 0..(Len(buffer) - 1)

(* a scrolled window whose last row shows the Document's last line *)
WindowAtDocumentEnd ==
    /\ pc = "loop"
    /\ start_line > 0
    /\ height < Len(buffer)
    /\ DrawIndex(start_line, height - 1) = Len(buffer) - 1

(* C17: in every render, at every terminal width, the text printed on each  *)
(* visible row r in 0..min(height, length) for Document line startLine + r  *)
(* is the whole line when its scalar length fits within the width,          *)
(* otherwise its trailing width scalars when startLine + r is the cursor's  *)
(* lineIndex, otherwise its leading width scalars.                          *)
RowsShowTheirLine ==
    pc = "loop" =>
        \A w \in Widths : \A r \in DrawRows(height, Len(buffer)) :
            LET i == start_line + r
                text == buffer[i + 1]
            IN  DrawLine(buffer, start_line, line, w, r) =
                    IF Len(text) <= w THEN text
                    ELSE IF i = line THEN SubSeq(text, Len(text) - w + 1, Len(text))
                    ELSE SubSeq(text, 1, w)

(* the UTF-8 encoding of scalar value c *)
Utf8Encode(c) ==
    IF c < 128 THEN <<c>>
    ELSE IF c < 2048 THEN <<192 + (c \div 64), 128 + (c % 64)>>
    ELSE IF c < 65536
        THEN <<224 + (c \div 4096), 128 + ((c \div 64) % 64), 128 + (c % 64)>>
    ELSE <<240 + (c \div 262144), 128 + ((c \div 4096) % 64),
           128 + ((c \div 64) % 64), 128 + (c % 64)>>

IsScalarValue(c) == c >= 0 /\ c <= 1114111 /\ ~(c >= 55296 /\ c <= 57343)

(* the payload bits of a lead byte and the bytes after it *)
RECURSIVE ScalarBits(_, _)
ScalarBits(acc, bytes) ==
    IF bytes = <<>> THEN acc ELSE ScalarBits(acc * 64 + (Head(bytes) % 64), Tail(bytes))

(* the scalar that bytes encode, or None if they encode none *)
Utf8Decoding(bytes) ==
    LET lead == Head(bytes)
        bits == IF lead < 128 THEN lead
                ELSE IF lead < 224 THEN lead % 32
                ELSE IF lead < 240 THEN lead % 16
                ELSE lead % 8
        c == ScalarBits(bits, Tail(bytes))
    IN  IF IsScalarValue(c) /\ Utf8Encode(c) = bytes THEN c ELSE None

(* the count the leading bits of a first byte fix *)
CountOfLeadingBits(b) ==
    IF b \in 0..127 THEN 1
    ELSE IF b \in 192..223 THEN 2
    ELSE IF b \in 224..239 THEN 3
    ELSE IF b \in 240..247 THEN 4
    ELSE 1

(* C11: for every first byte b other than ESC and every stream of bytes     *)
(* after it, one call of the decoder returns exactly one scalar and no      *)
(* escape, never fails, and consumes exactly the count of bytes that the    *)
(* leading bits of b fix (1 below 0x80, 2 for 110xxxxx, 3 for 1110xxxx, 4   *)
(* for 11110xxx, 1 otherwise); the scalar is the UTF-8 decoding of the      *)
(* consumed bytes when they are a valid encoding, U+FFFD otherwise.         *)
DecodesOneScalar ==
    [][(pc = "loop" /\ stdin # <<>> /\ Head(stdin) # 27)
        => LET n == CountOfLeadingBits(Head(stdin))
               consumed == SubSeq(stdin, 1, n)
           IN  /\ pc' = "loop"
               /\ fault' = ""
               /\ esc' = <<>>
               /\ Len(stdin) >= n
               /\ stdin' = SubSeq(stdin, n + 1, Len(stdin))
               /\ char' = IF Utf8Decoding(consumed) # None THEN Utf8Decoding(consumed)
                          ELSE 65533]_vars

(* the four bytes F0 A9 80 80 were consumed and decoded to U+29000 *)
DecodedFourBytes ==
    /\ pc = "loop"
    /\ char = 167936
    /\ esc = <<>>
    /\ stdin = <<>>

(* C12: for every byte stream that begins with ESC and contains a           *)
(* terminator later on, whatever values 0x00-0xFF the bytes before the      *)
(* terminator have, one call of the decoder returns exactly one event, an   *)
(* escape sequence and no scalar, and never fails.                          *)
EscapeCallNeverFails ==
    [][(/\ pc = "loop"
        /\ stdin # <<>>
        /\ Head(stdin) = 27
        /\ \E i \in 2..Len(stdin) : stdin[i] \in (64..126) \ {91})
        => /\ pc' = "loop"
           /\ fault' = ""
           /\ char' = None
           /\ esc' # <<>>]_vars

(* C16: escape collection ends at, and only at, the first byte after ESC    *)
(* that lies in the half-open range [0x40, 0x7E) and is not 0x5B; every     *)
(* byte outside that range, 0x7E '~' included, is appended and collection   *)
(* continues, so that no returned sequence ends in '~'.                     *)
EscapeEndsBelowTilde ==
    [][(pc = "loop" /\ stdin # <<>> /\ Head(stdin) = 27 /\ pc' = "loop")
        =>     LET n == Len(esc')
               IN  /\ n >= 2
                   /\ n <= Len(stdin)
                   /\ esc' = SubSeq(stdin, 1, n)
                   /\ stdin' = SubSeq(stdin, n + 1, Len(stdin))
                   /\ esc'[n] \in (64..125) \ {91}
                   /\ \A i \in 2..(n - 1) : esc'[i] \notin (64..125) \ {91}]_vars

(* C16, amended: escape collection returns at, and only at, the first byte  *)
(* after ESC that lies in [0x40, 0x7E], 0x7E included, and is not 0x5B: the *)
(* returned sequence is ESC and every byte read up to and including that    *)
(* byte, and every byte before it is below 0x80 and no terminator. The only *)
(* other way a call ends is the panic of main.rs:37 at the first byte from  *)
(* 0x80 on, met before any terminator.                                      *)
EscapeEndsAtFinalByte ==
    [][(pc = "loop" /\ stdin # <<>> /\ Head(stdin) = 27)
        => LET n == Len(stdin) - Len(stdin')
               final == (64..126) \ {91}
           IN  /\ n >= 2
               /\ stdin' = SubSeq(stdin, n + 1, Len(stdin))
               /\ \A i \in 2..(n - 1) : stdin[i] \notin final /\ stdin[i] < 128
               /\ IF stdin[n] \in final
                  THEN pc' = "loop" /\ char' = None /\ esc' = SubSeq(stdin, 1, n)
                  ELSE stdin[n] >= 128 /\ pc' = "panicked" /\ fault' = "main.rs:37"]_vars

(* ESC [ 3 ~ was returned as one escape sequence, ended by its '~' *)
DeleteKeyReturned ==
    /\ pc = "loop"
    /\ char = None
    /\ esc = <<27, 91, 51, 126>>
    /\ stdin = <<>>

====
